---- MODULE Spec2Model ----
(***************************************************************************)
(* Model of the gradient editor of src/src/pages/Index.tsx, the second     *)
(* GradientEditor component (lines 200-455): the one with the draggable    *)
(* angle dial, add-on-click, remove buttons and the sorted gradient string.*)
(*                                                                         *)
(* Numbers.  A stop position is a JavaScript number.  The model keeps it   *)
(* as an integer in units of 1/RectWidth percent, so that                  *)
(* (x / rect.width) * 100 is exact for every integer pixel offset x:       *)
(* the stored value is  x * 100  when rect.width = RectWidth, and          *)
(* Percent(p) stands for the JavaScript value p.  The three non-finite     *)
(* values a division by rect.width = 0 produces are the sentinels          *)
(* Infinity, NegInfinity and NaN.                                          *)
(***************************************************************************)
EXTENDS Integers, Sequences, FiniteSets, TLC

(* ------------------------------ bounds -------------------------------- *)

\* width of the slider's bounding rectangle, in pixels
RectWidth == 1

\* left edge of the slider's bounding rectangle, in client pixels
RectLeft == 3

\* how many pixels a stop handle reaches to either side of its centre
Overhang == 1

\* largest number of stops the model lets the editor hold
MaxStops == 3

\* how many ids the model lets uuidv4 generate
MaxIds == 1

\* the far pointer offset from the dial centre, in pixels
Far == 120

\* the widest slider rectangle of the drags that check the mapping, in pixels
WidestRect == 5

(* --------------------------- JavaScript numbers ------------------------ *)

Infinity == 1000000

NegInfinity == -1000000

NaN == 7777777

IsNaN(v) == v = NaN

Abs(n) == IF n < 0 THEN -n ELSE n

IsFinite(v) == v # NaN /\ v # Infinity /\ v # NegInfinity

\* the JavaScript number p, a percentage, in the model's unit
Percent(p) == p * RectWidth

\* Math.min(a, b): NaN if either argument is NaN
MathMin(a, b) == IF IsNaN(a) \/ IsNaN(b) THEN NaN ELSE IF a < b THEN a ELSE b

\* Math.max(a, b): NaN if either argument is NaN
MathMax(a, b) == IF IsNaN(a) \/ IsNaN(b) THEN NaN ELSE IF a > b THEN a ELSE b

\* (x / width) * 100 for a pixel offset x and a rectangle width, in the
\* model's unit: x/0 is NaN for x = 0 and a signed infinity otherwise
RatioPercent(x, width) ==
    IF width = 0
    THEN IF x = 0 THEN NaN ELSE IF x > 0 THEN Infinity ELSE NegInfinity
    ELSE (x * 100 * RectWidth) \div width

(* ------------------------------ constants ----------------------------- *)

Null == "null"

White == "#FFFFFF"

\* colours the colour inputs are given
Palette == { White }

ToastNone == "none"

ToastMinimum == "Minimum 2 color stops required"

ToastCopied == "CSS copied to clipboard!"

\* nothing was written to the clipboard
NoText == ""

\* no position field was edited
NoField == << Null, 0 >>

\* values typed into a position field: one inside [0,100], one outside
FieldValues == { 50, 150 }

\* no pointer event on the dial
NoDial == << 0, 0 >>

\* clientX of the pointer events: the slider and Overhang pixels around it
ClientXs == (RectLeft - Overhang) .. (RectLeft + RectWidth + Overhang)

\* pointer offsets from the dial centre: horizontal and vertical
DialDXs == {-1, 1}

DialDYs == {-Far}

InitialStops ==
    << [color |-> "#4A90E2", position |-> Percent(0),   id |-> "1"],
       [color |-> "#50E3C2", position |-> Percent(100), id |-> "2"] >>

VARIABLES
    angle,            \* useState(90)
    colorStops,       \* useState<ColorStop[]>: the array held in state
    draggingStop,     \* useState<string | null>
    isDraggingAngle,  \* useState(false)
    stopListeners,    \* document mousemove/mouseup pairs of the draggingStop effect
    angleListeners,   \* document mousemove/mouseup pairs of the isDraggingAngle effect
    toast,            \* the notification the last handler raised, if any
    clipboardWrite,   \* the text the last handler wrote to the clipboard, if any
    fieldInput,       \* the stop and the value of the position field the last handler was given
    uuidCount,        \* how many ids uuidv4 has generated
    rectWidth,        \* sliderRef.current.getBoundingClientRect().width
    mouseButton,      \* "up" or "down"
    pressTarget,      \* what the latest mousedown hit: "none", "handle", "button", "dial"
    pressId,          \* the stop of the handle the latest mousedown hit
    pointerX,         \* clientX of the latest pointer event on the slider axis
    pointerD,         \* offset from the dial centre of the latest pointer event on the dial
    pendingClick,     \* the click event the browser dispatches after mouseup
    lastOp,           \* history: the handler that ran last
    preRender,        \* history: the array handed to the last render, before it
    moved,            \* history: a mousemove reached a drag listener in this drag
    dragStartPos      \* history: the dragged stop's position at mousedown

vars == << angle, colorStops, draggingStop, isDraggingAngle, stopListeners,
           angleListeners, toast, clipboardWrite, fieldInput, uuidCount,
           rectWidth, mouseButton, pressTarget, pressId, pointerX, pointerD,
           pendingClick, lastOp, preRender, moved, dragStartPos >>


(* --------------------------- the stop array --------------------------- *)

Ids(stops) == { stops[i].id : i \in DOMAIN stops }

HasId(stops, id) == id \in Ids(stops)

\* the position of the stop with this id (of the first one, if several)
PositionOf(stops, id) ==
    stops[CHOOSE i \in DOMAIN stops :
            stops[i].id = id /\ \A j \in DOMAIN stops : stops[j].id = id => i <= j].position

HasNaN(stops) == \E i \in DOMAIN stops : IsNaN(stops[i].position)

\* the comparator (a, b) => a.position - b.position reports a before-or-equal b
\* (a result <= 0 or NaN, which sort takes for 0)
NotAfter(a, b) == IsNaN(a.position) \/ IsNaN(b.position) \/ a.position <= b.position

RECURSIVE InsertByPosition(_, _)
\* e placed into the sorted s behind every element that is not after it
InsertByPosition(s, e) ==
    IF s = << >> THEN << e >>
    ELSE IF NotAfter(s[Len(s)], e) THEN Append(s, e)
         ELSE Append(InsertByPosition(SubSeq(s, 1, Len(s) - 1), e), s[Len(s)])

\* the first variant's gradientString (lines 37-39): no sort at all
StableSort_Unsorted(s) == s

RECURSIVE StableSort(_)
\* Array.prototype.sort with the position comparator: a stable sort
StableSort(s) ==
    IF s = << >> THEN << >>
    ELSE InsertByPosition(StableSort(SubSeq(s, 1, Len(s) - 1)), s[Len(s)])

\* every arrangement of the elements of s
Arrangements(s) ==
    { [i \in DOMAIN s |-> s[f[i]]] :
        f \in { g \in [DOMAIN s -> DOMAIN s] : \A i, j \in DOMAIN s : g[i] = g[j] => i = j } }

\* colorStops.sort((a, b) => a.position - b.position): the arrays the call can
\* leave behind.  With a NaN position the comparator is inconsistent and the
\* order is implementation-defined.
SortOutcomes(stops) ==
    IF HasNaN(stops) THEN Arrangements(stops) ELSE { StableSort(stops) }

\* .map((stop) => `${stop.color} ${stop.position}%`)
FormatStops(stops) == [i \in DOMAIN stops |-> << stops[i].color, stops[i].position >>]

\* the gradient string a render computes from the array it is given and has
\* sorted in place: the angle and the formatted stops, in order
GradientString(a, sorted) == [deg |-> a, stops |-> FormatStops(sorted)]

\* the string of the latest render
gradientString == GradientString(angle, colorStops)

(* --------------------------- the CSS text ----------------------------- *)

RECURSIVE FractionDigits(_, _)
\* the decimal digits of rem / RectWidth, n of them at most
FractionDigits(rem, n) ==
    IF rem = 0 \/ n = 0 THEN ""
    ELSE ToString((rem * 10) \div RectWidth)
            \o FractionDigits((rem * 10) % RectWidth, n - 1)

\* `${stop.position}`: the text of a JavaScript number, for a position in the
\* model's unit
NumberToString(v) ==
    IF IsNaN(v) THEN "NaN"
    ELSE IF v = Infinity THEN "Infinity"
    ELSE IF v = NegInfinity THEN "-Infinity"
    ELSE IF Abs(v) % RectWidth = 0 THEN ToString(v \div RectWidth)
    ELSE (IF v < 0 THEN "-" ELSE "")
            \o ToString(Abs(v) \div RectWidth) \o "."
            \o FractionDigits(Abs(v) % RectWidth, 16)

\* the template `${stop.color} ${stop.position}%` without its percent sign
FormatStop_NoPercent(stop) == stop.color \o " " \o NumberToString(stop.position)

\* `${stop.color} ${stop.position}%`
FormatStop(stop) == stop.color \o " " \o NumberToString(stop.position) \o "%"

RECURSIVE JoinStops(_)
\* .map((stop) => ...).join(', ')
JoinStops(stops) ==
    IF stops = << >> THEN ""
    ELSE IF Len(stops) = 1 THEN FormatStop(stops[1])
         ELSE FormatStop(stops[1]) \o ", " \o JoinStops(Tail(stops))

\* `linear-gradient(${angle}deg, ${...})` for the array as the render has
\* sorted it
CssGradient(a, sorted) ==
    "linear-gradient(" \o ToString(a) \o "deg, " \o JoinStops(sorted) \o ")"

\* the text of gradientString at the latest render
gradientCss == CssGradient(angle, colorStops)

\* copyToClipboard: `background: ${gradientString};`
ClipboardText(css) == "background: " \o css \o ";"

(* ----------------------- pointer-to-percent mapping -------------------- *)

\* the mapping without its clamp: (x / rect.width) * 100
DragPosition_NoClamp(clientX, width) == RatioPercent(clientX - RectLeft, width)

\* handleStopDrag: Math.max(0, Math.min(100, (x / rect.width) * 100))
DragPosition(clientX, width) ==
    MathMax(Percent(0), MathMin(Percent(100), RatioPercent(clientX - RectLeft, width)))

\* handleSliderClick: (x / rect.width) * 100, as it is
ClickPosition(clientX, width) == RatioPercent(clientX - RectLeft, width)

\* the map without its test: every stop is given the position
MapPosition_AllStops(stops, stopId, position) ==
    [i \in DOMAIN stops |-> [stops[i] EXCEPT !.position = position]]

\* the map with its test turned round: stop.id !== stopId
MapPosition_Inverted(stops, stopId, position) ==
    [i \in DOMAIN stops |->
        IF stops[i].id # stopId THEN [stops[i] EXCEPT !.position = position] ELSE stops[i]]

\* setColorStops(stops => stops.map(stop => stop.id === stopId ? {...stop, position} : stop))
MapPosition(stops, stopId, position) ==
    [i \in DOMAIN stops |->
        IF stops[i].id = stopId THEN [stops[i] EXCEPT !.position = position] ELSE stops[i]]

\* setColorStops(stops => stops.map(stop => stop.id === stopId ? {...stop, color} : stop))
MapColor(stops, stopId, color) ==
    [i \in DOMAIN stops |->
        IF stops[i].id = stopId THEN [stops[i] EXCEPT !.color = color] ELSE stops[i]]

\* stops.filter(stop => stop.id !== stopId)
RECURSIVE FilterOut(_, _)
FilterOut(stops, stopId) ==
    IF stops = << >> THEN << >>
    ELSE IF stops[1].id = stopId THEN FilterOut(Tail(stops), stopId)
         ELSE << stops[1] >> \o FilterOut(Tail(stops), stopId)

\* uuidv4(): the n-th id generated
uuidv4(n) == "uuid-" \o ToString(n)


(* --------------------------- pointer-to-angle -------------------------- *)

\* tan(k/2 degrees) * TanScale, rounded down, for k = 0 .. 90, at index k + 1
TanTable ==
  << 0, 8726, 17455, 26185, 34920, 43660, 52407, 61162, 69926, 78701,
     87488, 96289, 105104, 113935, 122784, 131652, 140540, 149451, 158384, 167342,
     176326, 185339, 194380, 203452, 212556, 221694, 230868, 240078, 249328, 258617,
     267949, 277324, 286745, 296213, 305730, 315298, 324919, 334595, 344327, 354118,
     363970, 373884, 383864, 393910, 404026, 414213, 424474, 434812, 445228, 455726,
     466307, 476975, 487732, 498581, 509525, 520567, 531709, 542955, 554309, 565772,
     577350, 589045, 600860, 612800, 624869, 637070, 649407, 661885, 674508, 687280,
     700207, 713293, 726542, 739961, 753554, 767326, 781285, 795435, 809784, 824336,
     839099, 854080, 869286, 884725, 900404, 916331, 932515, 948964, 965688, 982697,
     1000000 >>

TanScale == 1000000

\* floor(2 * atan(num / den) in degrees) for 0 <= num <= den, den > 0: the
\* number of half degrees k in 1 .. 90 whose tangent is at most num / den
HalfDegreesFloor(num, den) ==
    Cardinality({ k \in 1 .. 90 : TanTable[k + 1] * den <= num * TanScale })

\* 2 * atan(num / den) in degrees is a whole number: only at 0 and 45 degrees
HalfDegreesExact(num, den) == num = 0 \/ num = den

\* << floor, ceiling >> of 2 * atan(ady / adx) in degrees, for ady, adx >= 0;
\* atan2(0, 0) is 0
FirstQuadrant(ady, adx) ==
    IF ady = 0 /\ adx = 0 THEN << 0, 0 >>
    ELSE IF ady <= adx
         THEN LET f == HalfDegreesFloor(ady, adx)
              IN  << f, IF HalfDegreesExact(ady, adx) THEN f ELSE f + 1 >>
         ELSE LET f == HalfDegreesFloor(adx, ady)
                  c == IF HalfDegreesExact(adx, ady) THEN f ELSE f + 1
              IN  << 180 - c, 180 - f >>

\* floor(2 * Math.atan2(dy, dx) * (180 / Math.PI)): the angle in half degrees,
\* rounded down, in -360 .. 360
Atan2HalfDegrees(dy, dx) ==
    LET q == FirstQuadrant(Abs(dy), Abs(dx))
    IN  IF dy >= 0
        THEN IF dx >= 0 THEN q[1] ELSE 360 - q[2]
        ELSE IF dx >= 0 THEN -q[2] ELSE q[1] - 360

\* JavaScript's a % m on half degrees: the remainder has the sign of a
JsRem(a, m) == IF a >= 0 THEN a % m ELSE -((-a) % m)

\* angle = ((angle % 360) + 360) % 360, on half degrees rounded down
Normalize(h) == JsRem(JsRem(h, 720) + 720, 720)

\* Math.round(angle) of an angle given in half degrees rounded down:
\* floor(angle + 0.5)
MathRound(h) == (h + 1) \div 2

\* handleAngleChange: the angle stored for a pointer dx, dy away from the
\* centre of the dial
AngleFor(dx, dy) == MathRound(Normalize(Atan2HalfDegrees(dy, dx) + 180))

\* AngleFor at the pointer offsets the model uses
AngleAt == [dx \in DialDXs, dy \in DialDYs |-> AngleFor(dx, dy)]

\* handleAngleChange(e): the angle it hands to setAngle
handleAngleChange(dx, dy) == AngleAt[dx, dy]


(* ------------------------------ handlers ------------------------------ *)

\* handleStopDrag adding the pointer's percent to the position it finds
handleStopDrag_Accumulate(stops, stopId, clientX, width) ==
    MapPosition(stops, stopId,
        MathMax(Percent(0), MathMin(Percent(100),
            PositionOf(stops, stopId) + DragPosition(clientX, width))))

\* handleStopDrag(e, stopId): the array it hands to setColorStops
handleStopDrag(stops, stopId, clientX, width) ==
    MapPosition(stops, stopId, DragPosition(clientX, width))

\* handleColorChange(color, stopId): the array it hands to setColorStops
handleColorChange(stops, color, stopId) == MapColor(stops, stopId, color)

\* handleSliderClick numbering the new stop by the length of the array
handleSliderClick_LengthId(stops, dragging, clientX, width, newId) ==
    IF dragging # Null THEN stops
    ELSE Append(stops, [color |-> White, position |-> ClickPosition(clientX, width),
                        id |-> ToString(Len(stops))])

\* handleSliderClick(e): the array after it; it returns early during a stop drag
handleSliderClick(stops, dragging, clientX, width, newId) ==
    IF dragging # Null THEN stops
    ELSE Append(stops, [color |-> White, position |-> ClickPosition(clientX, width), id |-> newId])

\* the length guard off by one
RemoveRefused_OffByOne(stops) == Len(stops) < 2

\* removeColorStop(stopId) refuses: colorStops.length <= 2
RemoveRefused(stops) == Len(stops) <= 2

\* removeColorStop without its early return
removeColorStop_NoReturn(stops, stopId) == FilterOut(stops, stopId)

\* removeColorStop(stopId): the array after it
removeColorStop(stops, stopId) ==
    IF RemoveRefused(stops) THEN stops ELSE FilterOut(stops, stopId)

\* the remove button of a stop is rendered: colorStops.length > 2
RemoveButtonRendered(stops) == Len(stops) > 2

\* the effect without the function it returns: no removeEventListener
EffectListeners_NoCleanup(registered, oldDep, newDep, inactive) ==
    IF oldDep = newDep THEN registered
    ELSE registered + (IF newDep # inactive THEN 1 ELSE 0)

\* a useEffect with one dependency that registers a mousemove/mouseup pair
\* while the dependency is active: the pairs registered after a render in
\* which the dependency went from oldDep to newDep (cleanup, then the effect)
EffectListeners(registered, oldDep, newDep, inactive) ==
    IF oldDep = newDep THEN registered
    ELSE registered - (IF oldDep # inactive THEN 1 ELSE 0)
                    + (IF newDep # inactive THEN 1 ELSE 0)

\* the render that follows a handler: gradientString sorts the array held in
\* state in place
Render(stops) ==
    /\ colorStops' \in SortOutcomes(stops)
    /\ preRender' = stops

\* left: `${stop.position}%`: the client pixel of the centre of a handle
HandleCentre(position) == RectLeft + (position * rectWidth) \div (100 * RectWidth)

\* the clientX values at which a pointer is on the handle of a stop
HandleXs(position) ==
    IF IsFinite(position)
    THEN { x \in ClientXs : Abs(x - HandleCentre(position)) <= Overhang }
    ELSE ClientXs

\* no pointer gesture is under way
PointerIdle == mouseButton = "up" /\ pendingClick = "none"

\* the model has room for one more stop
RoomForStop == Len(colorStops) < MaxStops /\ uuidCount < MaxIds

(* ------------------------------- actions ------------------------------ *)

Init ==
    /\ angle = 90
    /\ colorStops = InitialStops
    /\ draggingStop = Null
    /\ isDraggingAngle = FALSE
    /\ stopListeners = 0
    /\ angleListeners = 0
    /\ toast = ToastNone
    /\ clipboardWrite = NoText
    /\ fieldInput = NoField
    /\ uuidCount = 0
    /\ rectWidth = RectWidth
    /\ mouseButton = "up"
    /\ pressTarget = "none"
    /\ pressId = Null
    /\ pointerX = RectLeft
    /\ pointerD = NoDial
    /\ pendingClick = "none"
    /\ lastOp = "init"
    /\ preRender = InitialStops
    /\ moved = FALSE
    /\ dragStartPos = 0

\* the record of a finished pointer gesture is dropped
ForgetGesture ==
    /\ pressTarget' = "none"
    /\ pressId' = Null
    /\ pointerX' = RectLeft
    /\ pointerD' = NoDial
    /\ moved' = FALSE
    /\ dragStartPos' = 0

\* the handler wrote nothing to the clipboard and read no position field
NoOutput ==
    /\ clipboardWrite' = NoText
    /\ fieldInput' = NoField

\* onMouseDown of a stop handle, reached from the handle itself or from the
\* remove button inside it: setDraggingStop(stop.id)
StopMouseDown(i, part, x) ==
    /\ PointerIdle
    /\ i \in DOMAIN colorStops
    /\ part = "button" => RemoveButtonRendered(colorStops)
    /\ x \in HandleXs(colorStops[i].position)
    /\ draggingStop' = colorStops[i].id
    /\ stopListeners' = EffectListeners(stopListeners, draggingStop, colorStops[i].id, Null)
    /\ mouseButton' = "down"
    /\ pressTarget' = part
    /\ pressId' = colorStops[i].id
    /\ pointerX' = x
    /\ pointerD' = NoDial
    /\ moved' = FALSE
    /\ dragStartPos' = colorStops[i].position
    /\ lastOp' = "stopMouseDown"
    /\ Render(colorStops)
    /\ toast' = ToastNone
    /\ NoOutput
    /\ UNCHANGED << angle, isDraggingAngle, angleListeners, uuidCount,
                    rectWidth, pendingClick >>

\* onMouseDown of the angle wheel without its call of handleAngleChange(e)
DialMouseDown_NoUpdate(dx, dy) ==
    /\ PointerIdle
    /\ isDraggingAngle' = TRUE
    /\ angle' = angle
    /\ angleListeners' = EffectListeners(angleListeners, isDraggingAngle, TRUE, FALSE)
    /\ mouseButton' = "down"
    /\ pressTarget' = "dial"
    /\ pressId' = Null
    /\ pointerX' = RectLeft
    /\ pointerD' = << dx, dy >>
    /\ moved' = FALSE
    /\ dragStartPos' = 0
    /\ lastOp' = "dialMouseDown"
    /\ Render(colorStops)
    /\ toast' = ToastNone
    /\ NoOutput
    /\ UNCHANGED << draggingStop, stopListeners, uuidCount, rectWidth,
                    pendingClick >>

\* onMouseDown of the angle wheel: setIsDraggingAngle(true); handleAngleChange(e)
DialMouseDown(dx, dy) ==
    /\ PointerIdle
    /\ isDraggingAngle' = TRUE
    /\ angle' = handleAngleChange(dx, dy)
    /\ angleListeners' = EffectListeners(angleListeners, isDraggingAngle, TRUE, FALSE)
    /\ mouseButton' = "down"
    /\ pressTarget' = "dial"
    /\ pressId' = Null
    /\ pointerX' = RectLeft
    /\ pointerD' = << dx, dy >>
    /\ moved' = FALSE
    /\ dragStartPos' = 0
    /\ lastOp' = "dialMouseDown"
    /\ Render(colorStops)
    /\ toast' = ToastNone
    /\ NoOutput
    /\ UNCHANGED << draggingStop, stopListeners, uuidCount, rectWidth,
                    pendingClick >>

\* the document mousemove listener of the draggingStop effect:
\* handleStopDrag(e, draggingStop)
StopDragMove(x) ==
    /\ stopListeners > 0
    /\ Render(handleStopDrag(colorStops, draggingStop, x, rectWidth))
    /\ pointerX' = x
    /\ moved' = TRUE
    /\ lastOp' = "stopDragMove"
    /\ toast' = ToastNone
    /\ NoOutput
    /\ UNCHANGED << angle, draggingStop, isDraggingAngle, stopListeners,
                    angleListeners, uuidCount, rectWidth, mouseButton,
                    pressTarget, pressId, pointerD, pendingClick, dragStartPos >>

\* the document mousemove listener of the isDraggingAngle effect:
\* handleAngleChange(e)
AngleDragMove(dx, dy) ==
    /\ angleListeners > 0
    /\ angle' = handleAngleChange(dx, dy)
    /\ pointerD' = << dx, dy >>
    /\ moved' = TRUE
    /\ lastOp' = "angleDragMove"
    /\ Render(colorStops)
    /\ toast' = ToastNone
    /\ NoOutput
    /\ UNCHANGED << draggingStop, isDraggingAngle, stopListeners, angleListeners,
                    uuidCount, rectWidth, mouseButton, pressTarget,
                    pressId, pointerX, pendingClick, dragStartPos >>

\* the click events a mouseup can be followed by: none when the button was
\* pressed on the dial or is released outside the slider, a click on the
\* handle, or a click on the remove button the press began on
ClickTargets ==
    IF pressTarget = "dial" THEN { "none" }
    ELSE { "none" }
         \cup (IF RoomForStop THEN { "handle" } ELSE { })
         \cup (IF pressTarget = "button" /\ RemoveButtonRendered(colorStops)
               THEN { "button" } ELSE { })

\* the mouseup listeners with an angle listener that leaves isDraggingAngle
\* as it is
MouseUp_KeepsAngle(target) ==
    /\ mouseButton = "down"
    /\ target \in ClickTargets
    /\ draggingStop' = IF stopListeners > 0 THEN Null ELSE draggingStop
    /\ isDraggingAngle' = isDraggingAngle
    /\ stopListeners' = EffectListeners(stopListeners, draggingStop, draggingStop', Null)
    /\ angleListeners' = EffectListeners(angleListeners, isDraggingAngle, isDraggingAngle', FALSE)
    /\ mouseButton' = "up"
    /\ pendingClick' = target
    /\ lastOp' = "mouseUp"
    /\ Render(colorStops)
    /\ toast' = ToastNone
    /\ NoOutput
    /\ UNCHANGED << angle, uuidCount, rectWidth, pressTarget, pressId,
                    pointerX, pointerD, moved, dragStartPos >>

\* the mouseup listeners with a stop listener that leaves draggingStop as it is
MouseUp_KeepsStop(target) ==
    /\ mouseButton = "down"
    /\ target \in ClickTargets
    /\ draggingStop' = draggingStop
    /\ isDraggingAngle' = IF angleListeners > 0 THEN FALSE ELSE isDraggingAngle
    /\ stopListeners' = EffectListeners(stopListeners, draggingStop, draggingStop', Null)
    /\ angleListeners' = EffectListeners(angleListeners, isDraggingAngle, isDraggingAngle', FALSE)
    /\ mouseButton' = "up"
    /\ pendingClick' = target
    /\ lastOp' = "mouseUp"
    /\ Render(colorStops)
    /\ toast' = ToastNone
    /\ NoOutput
    /\ UNCHANGED << angle, uuidCount, rectWidth, pressTarget, pressId,
                    pointerX, pointerD, moved, dragStartPos >>

\* the document mouseup listeners: setDraggingStop(null), setIsDraggingAngle(false)
MouseUp(target) ==
    /\ mouseButton = "down"
    /\ target \in ClickTargets
    /\ draggingStop' = IF stopListeners > 0 THEN Null ELSE draggingStop
    /\ isDraggingAngle' = IF angleListeners > 0 THEN FALSE ELSE isDraggingAngle
    /\ stopListeners' = EffectListeners(stopListeners, draggingStop, draggingStop', Null)
    /\ angleListeners' = EffectListeners(angleListeners, isDraggingAngle, isDraggingAngle', FALSE)
    /\ mouseButton' = "up"
    /\ pendingClick' = target
    /\ lastOp' = "mouseUp"
    /\ Render(colorStops)
    /\ toast' = ToastNone
    /\ NoOutput
    /\ UNCHANGED << angle, uuidCount, rectWidth, pressTarget, pressId,
                    pointerX, pointerD, moved, dragStartPos >>

\* the click that follows a press and release on a stop handle: it bubbles to
\* the slider's onClick, handleSliderClick(e)
HandleClick ==
    /\ pendingClick = "handle"
    /\ Render(handleSliderClick(colorStops, draggingStop, pointerX, rectWidth,
                                uuidv4(uuidCount + 1)))
    /\ uuidCount' = IF draggingStop # Null THEN uuidCount ELSE uuidCount + 1
    /\ pendingClick' = "none"
    /\ lastOp' = "handleClick"
    /\ ForgetGesture
    /\ toast' = ToastNone
    /\ NoOutput
    /\ UNCHANGED << angle, draggingStop, isDraggingAngle, stopListeners,
                    angleListeners, rectWidth, mouseButton >>

\* a click on the slider track, away from the handles: handleSliderClick(e)
SliderClick(x) ==
    /\ PointerIdle
    /\ RoomForStop
    /\ x \in RectLeft .. (RectLeft + rectWidth)
    /\ Render(handleSliderClick(colorStops, draggingStop, x, rectWidth,
                                uuidv4(uuidCount + 1)))
    /\ uuidCount' = IF draggingStop # Null THEN uuidCount ELSE uuidCount + 1
    /\ lastOp' = "sliderClick"
    /\ ForgetGesture
    /\ toast' = ToastNone
    /\ NoOutput
    /\ UNCHANGED << angle, draggingStop, isDraggingAngle, stopListeners,
                    angleListeners, rectWidth, mouseButton, pendingClick >>

\* the click on a remove button: e.stopPropagation(); removeColorStop(stop.id)
RemoveClick ==
    /\ pendingClick = "button"
    /\ toast' = IF RemoveRefused(colorStops) THEN ToastMinimum ELSE ToastNone
    /\ NoOutput
    /\ Render(removeColorStop(colorStops, pressId))
    /\ pendingClick' = "none"
    /\ lastOp' = "removeClick"
    /\ ForgetGesture
    /\ UNCHANGED << angle, draggingStop, isDraggingAngle, stopListeners,
                    angleListeners, uuidCount, rectWidth, mouseButton >>

\* removeColorStop(stopId) as an operation of the editor, called whether or
\* not the button is rendered: the only way its length guard is exercised
RemoveColorStop(i) ==
    /\ PointerIdle
    /\ i \in DOMAIN colorStops
    /\ toast' = IF RemoveRefused(colorStops) THEN ToastMinimum ELSE ToastNone
    /\ NoOutput
    /\ Render(removeColorStop(colorStops, colorStops[i].id))
    /\ lastOp' = "removeColorStop"
    /\ ForgetGesture
    /\ UNCHANGED << angle, draggingStop, isDraggingAngle, stopListeners,
                    angleListeners, uuidCount, rectWidth, mouseButton,
                    pendingClick >>

\* onChange of a colour picker or colour text input: handleColorChange(value, stop.id)
ColorChange(i, color) ==
    /\ i \in DOMAIN colorStops
    /\ Render(handleColorChange(colorStops, color, colorStops[i].id))
    /\ lastOp' = "colorChange"
    /\ IF PointerIdle THEN ForgetGesture
       ELSE UNCHANGED << pressTarget, pressId, pointerX, pointerD, moved,
                         dragStartPos >>
    /\ toast' = ToastNone
    /\ NoOutput
    /\ UNCHANGED << angle, draggingStop, isDraggingAngle, stopListeners,
                    angleListeners, uuidCount, rectWidth, mouseButton,
                    pendingClick >>

\* copyToClipboard: the notification it shows
CopyToClipboard ==
    /\ PointerIdle
    /\ clipboardWrite' = ClipboardText(gradientCss)
    /\ toast' = ToastCopied
    /\ fieldInput' = NoField
    /\ lastOp' = "copyToClipboard"
    /\ ForgetGesture
    /\ UNCHANGED << angle, colorStops, draggingStop, isDraggingAngle,
                    stopListeners, angleListeners, uuidCount, rectWidth,
                    mouseButton, pendingClick, preRender >>

\* a mousemove on the document while neither effect has a listener
\* registered: no handler of the editor runs
PointerMove ==
    /\ PointerIdle
    /\ stopListeners = 0
    /\ angleListeners = 0
    /\ lastOp' = "pointerMove"
    /\ ForgetGesture
    /\ toast' = ToastNone
    /\ NoOutput
    /\ UNCHANGED << angle, colorStops, draggingStop, isDraggingAngle,
                    stopListeners, angleListeners, uuidCount, rectWidth,
                    mouseButton, pendingClick, preRender >>

\* onChange of a numeric position field: position is computed and dropped,
\* handleColorChange(stop.color, stop.id) is what runs
PositionInput(i, v) ==
    /\ PointerIdle
    /\ i \in DOMAIN colorStops
    /\ Render(handleColorChange(colorStops, colorStops[i].color, colorStops[i].id))
    /\ fieldInput' = << colorStops[i].id, v >>
    /\ clipboardWrite' = NoText
    /\ toast' = ToastNone
    /\ lastOp' = "positionInput"
    /\ ForgetGesture
    /\ UNCHANGED << angle, draggingStop, isDraggingAngle, stopListeners,
                    angleListeners, uuidCount, rectWidth, mouseButton,
                    pendingClick >>

Next ==
    \/ \E i \in 1 .. MaxStops, part \in { "handle", "button" }, x \in ClientXs :
          StopMouseDown(i, part, x)
    \/ \E dx \in DialDXs, dy \in DialDYs : DialMouseDown(dx, dy)
    \/ \E x \in ClientXs : StopDragMove(x)
    \/ \E dx \in DialDXs, dy \in DialDYs : AngleDragMove(dx, dy)
    \/ \E target \in { "none", "handle", "button" } : MouseUp(target)
    \/ HandleClick
    \/ \E x \in ClientXs : SliderClick(x)
    \/ RemoveClick
    \/ \E i \in 1 .. MaxStops : RemoveColorStop(i)
    \/ \E i \in 1 .. MaxStops, color \in Palette : ColorChange(i, color)
    \/ CopyToClipboard
    \/ PointerMove
    \/ \E i \in 1 .. MaxStops, v \in FieldValues : PositionInput(i, v)

Spec == Init /\ [][Next]_vars

\* the editor on a page whose layout leaves the slider without width:
\* getBoundingClientRect().width is 0
InitDegenerate ==
    /\ angle = 90
    /\ colorStops = InitialStops
    /\ draggingStop = Null
    /\ isDraggingAngle = FALSE
    /\ stopListeners = 0
    /\ angleListeners = 0
    /\ toast = ToastNone
    /\ clipboardWrite = NoText
    /\ fieldInput = NoField
    /\ uuidCount = 0
    /\ rectWidth = 0
    /\ mouseButton = "up"
    /\ pressTarget = "none"
    /\ pressId = Null
    /\ pointerX = RectLeft
    /\ pointerD = NoDial
    /\ pendingClick = "none"
    /\ lastOp = "init"
    /\ preRender = InitialStops
    /\ moved = FALSE
    /\ dragStartPos = 0

\* the stop drags and the clicks on the slider, the handlers that read the
\* rectangle
NextDegenerate ==
    \/ \E i \in 1 .. MaxStops, x \in ClientXs : StopMouseDown(i, "handle", x)
    \/ \E x \in ClientXs : StopDragMove(x)
    \/ \E target \in { "none", "handle" } : MouseUp(target)
    \/ HandleClick
    \/ \E x \in ClientXs : SliderClick(x)

SpecDegenerate == InitDegenerate /\ [][NextDegenerate]_vars

\* the ids the editor has handed out so far
KnownIds == { "1", "2" } \cup { uuidv4(n) : n \in 1 .. uuidCount }

\* the remove button of a stop activated from the keyboard while the mouse
\* button is held down on a handle: its onClick, removeColorStop(stop.id)
RemoveByKeyboard(i) ==
    /\ mouseButton = "down"
    /\ i \in DOMAIN colorStops
    /\ RemoveButtonRendered(colorStops)
    /\ toast' = IF RemoveRefused(colorStops) THEN ToastMinimum ELSE ToastNone
    /\ NoOutput
    /\ Render(removeColorStop(colorStops, colorStops[i].id))
    /\ lastOp' = "removeByKeyboard"
    /\ UNCHANGED << angle, draggingStop, isDraggingAngle, stopListeners,
                    angleListeners, uuidCount, rectWidth, mouseButton,
                    pressTarget, pressId, pointerX, pointerD, pendingClick,
                    moved, dragStartPos >>

\* handleColorChange(color, stopId) called with the id of a stop that has
\* been removed
ColorChangeStale(stopId, color) ==
    /\ PointerIdle
    /\ stopId \in KnownIds \ Ids(colorStops)
    /\ Render(handleColorChange(colorStops, color, stopId))
    /\ lastOp' = "colorChangeStale"
    /\ ForgetGesture
    /\ toast' = ToastNone
    /\ NoOutput
    /\ UNCHANGED << angle, draggingStop, isDraggingAngle, stopListeners,
                    angleListeners, uuidCount, rectWidth, mouseButton,
                    pendingClick >>

\* the editor with updates that name a stop no longer in the array: a stop
\* removed in the middle of its drag, a colour change for a removed stop
NextStale ==
    \/ Next
    \/ \E i \in 1 .. MaxStops : RemoveByKeyboard(i)
    \/ \E n \in 1 .. MaxIds, color \in Palette :
          ColorChangeStale(uuidv4(n), color)
    \/ \E stopId \in { "1", "2" }, color \in Palette :
          ColorChangeStale(stopId, color)

SpecStale == Init /\ [][NextStale]_vars

\* the widths of the slider rectangle for which every pixel maps to a whole
\* number of the model's position units
MapperWidths == { w \in 1 .. WidestRect : (100 * RectWidth) % w = 0 }

\* clientX of the pointer events of a drag over the widest rectangle
MapperXs == (RectLeft - Overhang) .. (RectLeft + WidestRect + Overhang)

\* the editor laid out with a slider of any of the widths
InitMapper ==
    /\ angle = 90
    /\ colorStops = InitialStops
    /\ draggingStop = Null
    /\ isDraggingAngle = FALSE
    /\ stopListeners = 0
    /\ angleListeners = 0
    /\ toast = ToastNone
    /\ clipboardWrite = NoText
    /\ fieldInput = NoField
    /\ uuidCount = 0
    /\ rectWidth \in MapperWidths
    /\ mouseButton = "up"
    /\ pressTarget = "none"
    /\ pressId = Null
    /\ pointerX = RectLeft
    /\ pointerD = NoDial
    /\ pendingClick = "none"
    /\ lastOp = "init"
    /\ preRender = InitialStops
    /\ moved = FALSE
    /\ dragStartPos = 0

\* the stop drags: press on a handle, moves anywhere in the document, release
\* outside the slider
NextMapper ==
    \/ \E i \in 1 .. MaxStops, x \in ClientXs : StopMouseDown(i, "handle", x)
    \/ \E x \in MapperXs : StopDragMove(x)
    \/ MouseUp("none")

SpecMapper == InitMapper /\ [][NextMapper]_vars

\* angles, colours and positions of the editors that are constructed to be
\* rendered
RenderAngles == { 135, 0 }

RenderColors == { "#FF0000", "#0000FF" }

RenderPositions == { Percent(0), Percent(50), Percent(100) }

RenderStop(c, p, id) == [color |-> c, position |-> p, id |-> id]

\* the arrays the editor is constructed with: two or three stops, in any order
\* of position
RenderInputs ==
    { << RenderStop(c1, p1, "1"), RenderStop(c2, p2, "2") >> :
        c1 \in RenderColors, p1 \in RenderPositions,
        c2 \in RenderColors, p2 \in RenderPositions }
    \cup
    { << RenderStop("#FF0000", p1, "1"), RenderStop("#0000FF", p2, "2"),
         RenderStop(c3, p3, "3") >> :
        p1 \in RenderPositions, p2 \in RenderPositions,
        c3 \in RenderColors, p3 \in RenderPositions }

\* the editor constructed with a given angle and array, after its first
\* render
InitRender ==
    /\ angle \in RenderAngles
    /\ preRender \in RenderInputs
    /\ colorStops \in SortOutcomes(preRender)
    /\ draggingStop = Null
    /\ isDraggingAngle = FALSE
    /\ stopListeners = 0
    /\ angleListeners = 0
    /\ toast = ToastNone
    /\ clipboardWrite = NoText
    /\ fieldInput = NoField
    /\ uuidCount = 0
    /\ rectWidth = RectWidth
    /\ mouseButton = "up"
    /\ pressTarget = "none"
    /\ pressId = Null
    /\ pointerX = RectLeft
    /\ pointerD = NoDial
    /\ pendingClick = "none"
    /\ lastOp = "init"
    /\ moved = FALSE
    /\ dragStartPos = 0

\* the handlers that show or copy the text and the colour edits between them
NextRender ==
    \/ CopyToClipboard
    \/ \E i \in 1 .. MaxStops, color \in Palette : ColorChange(i, color)

SpecRender == InitRender /\ [][NextRender]_vars

(* ------------------------------ properties ---------------------------- *)

\* C1: the editor holds at least two colour stops in every reachable state.
C1_AtLeastTwoStops == Len(colorStops) >= 2

\* a removal has taken a third stop away and two are left
C1_Witness ==
    /\ lastOp \in { "removeClick", "removeColorStop" }
    /\ toast = ToastNone
    /\ clipboardWrite = NoText
    /\ fieldInput = NoField
    /\ Len(colorStops) = 2

\* C2: removeColorStop called when exactly two stops exist leaves the array
\* as it is and raises the "Minimum 2 color stops required" notification.
C2_RemoveAtTwoRefused ==
    [][ (lastOp' \in { "removeClick", "removeColorStop" } /\ Len(colorStops) = 2)
            => (colorStops' = colorStops /\ toast' = ToastMinimum) ]_vars

\* a removal was asked for with two stops and was refused
C2_Witness ==
    /\ lastOp = "removeColorStop"
    /\ toast = ToastMinimum
    /\ Len(colorStops) = 2

\* C3: every stop's stored position p has 0 <= p <= 100.
C3_PositionsInRange ==
    \A i \in DOMAIN colorStops :
        /\ colorStops[i].position >= Percent(0)
        /\ colorStops[i].position <= Percent(100)

\* C4: the stored angle is an integer a with 0 <= a < 360.
C4_AngleBelow360 == angle \in 0 .. 359

\* C5: the rendered gradient string lists the stops in non-decreasing order
\* of position.
C5_RenderedOrder ==
    \A i, j \in DOMAIN gradientString.stops :
        i < j => gradientString.stops[i][2] <= gradientString.stops[j][2]

\* the render was handed an array that was not in order of position
C5_Witness ==
    /\ Len(preRender) >= 3
    /\ \E i \in 1 .. (Len(preRender) - 1) :
          preRender[i].position > preRender[i + 1].position

IdsDistinct(stops) ==
    \A i, j \in DOMAIN stops : stops[i].id = stops[j].id => i = j

ClampedPercent(x) ==
    LET p == (x - RectLeft) * 100
    IN  IF p < Percent(0) THEN Percent(0)
        ELSE IF p > Percent(100) THEN Percent(100) ELSE p

\* C7: when the pointer-up of a stop drag has been handled, the dragged
\* stop's position is the clamped percent of the last move event, or, with
\* no move, the position it had at pointer-down.
C7_DragFinalPosition ==
    (lastOp = "mouseUp" /\ pressTarget \in { "handle", "button" })
        => /\ HasId(colorStops, pressId)
           /\ PositionOf(colorStops, pressId) =
                 IF moved THEN ClampedPercent(pointerX) ELSE dragStartPos

\* a drag with at least one move has ended and has left the stop elsewhere
C7_Witness ==
    /\ lastOp = "mouseUp"
    /\ pressTarget = "handle"
    /\ moved
    /\ HasId(colorStops, pressId)
    /\ PositionOf(colorStops, pressId) # dragStartPos

\* C8: pointer-down, moves, pointer-up and the click that follows, all on a
\* stop handle, leave the number of stops as it was.
C8_HandleGestureAddsNothing ==
    [][ lastOp' \in { "stopMouseDown", "stopDragMove", "mouseUp", "handleClick" }
            => Len(colorStops') = Len(colorStops) ]_vars

\* C9: the array held in state is the same after a render as before it.
C9_RenderKeepsStoredArray == colorStops = preRender

\* C10: no stop's position is NaN or an infinity, whatever the width of the
\* slider's rectangle.
C10_PositionsFinite ==
    \A i \in DOMAIN colorStops : IsFinite(colorStops[i].position)


\* the place of stop i of the array among the stops in ascending order of
\* position, stops of equal position in the order of the array
RankIn(stops, i) ==
    1 + Cardinality({ j \in DOMAIN stops :
                        \/ stops[j].position < stops[i].position
                        \/ (stops[j].position = stops[i].position /\ j < i) })

\* the stop that has place k
StopAtRank(stops, k) == stops[CHOOSE i \in DOMAIN stops : RankIn(stops, i) = k]

\* "<color> <position>%" of the stop that has place k, for a position that
\* is a whole number of percent
RankText(stops, k) ==
    StopAtRank(stops, k).color \o " "
        \o ToString(StopAtRank(stops, k).position \div RectWidth) \o "%"

\* the text the claim gives for an angle and an array of two or three stops
ExpectedGradient(a, stops) ==
    "linear-gradient(" \o ToString(a) \o "deg, "
        \o RankText(stops, 1) \o ", " \o RankText(stops, 2)
        \o (IF Len(stops) = 3 THEN ", " \o RankText(stops, 3) ELSE "")
        \o ")"

ExampleStops ==
    << RenderStop("#FF0000", Percent(0), "1"), RenderStop("#0000FF", Percent(100), "2") >>

\* C11: the rendered text is "linear-gradient(<angle>deg, " followed by the
\* stops in ascending order of position, each "<color> <position>%", joined
\* by ", ", and ")"; the copied text is "background: " + that + ";"; angle
\* 135 with (#FF0000, 0), (#0000FF, 100) gives
\* linear-gradient(135deg, #FF0000 0%, #0000FF 100%).
C11_RenderedText ==
    /\ gradientCss = ExpectedGradient(angle, preRender)
    /\ (angle = 135 /\ preRender = ExampleStops)
          => gradientCss = "linear-gradient(135deg, #FF0000 0%, #0000FF 100%)"
    /\ lastOp = "copyToClipboard"
          => clipboardWrite = "background: " \o ExpectedGradient(angle, preRender) \o ";"
    /\ (lastOp = "copyToClipboard" /\ angle = 135 /\ preRender = ExampleStops)
          => clipboardWrite = "background: linear-gradient(135deg, #FF0000 0%, #0000FF 100%);"

\* the text of the example has been copied
C11_Witness ==
    /\ lastOp = "copyToClipboard"
    /\ angle = 135
    /\ colorStops = ExampleStops
    /\ clipboardWrite # NoText


\* C12: a colour update or a drag move that names a stop id the array does
\* not hold changes nothing in the array and raises no notification.
C12_UnknownIdNoOp ==
    [][ (\/ (lastOp' = "stopDragMove" /\ ~HasId(colorStops, draggingStop))
         \/ lastOp' = "colorChangeStale")
            => (colorStops' = colorStops /\ toast' = ToastNone) ]_vars

\* a drag move has run for a stop that was removed during its drag
C12_Witness ==
    /\ lastOp = "stopDragMove"
    /\ draggingStop # Null
    /\ ~HasId(colorStops, draggingStop)


\* C13: for a rectangle of positive width the position a drag move stores is
\* 0 for a pointer at or left of rect.left, 100 for a pointer at or right of
\* rect.left + rect.width, and from one move of a drag to the next it does
\* not fall when the pointer goes right and does not rise when it goes left.
C13_MapperMonotoneSaturating ==
    [][ (lastOp' = "stopDragMove" /\ rectWidth > 0 /\ HasId(colorStops, draggingStop))
            => LET old == PositionOf(colorStops, draggingStop)
                   new == PositionOf(colorStops', draggingStop)
               IN  /\ pointerX' <= RectLeft => new = Percent(0)
                   /\ pointerX' >= RectLeft + rectWidth => new = Percent(100)
                   /\ (moved /\ pointerX <= pointerX') => old <= new
                   /\ (moved /\ pointerX >= pointerX') => old >= new ]_vars

\* a drag over the widest rectangle has stored a position strictly inside
\* the range after one strictly lower
C13_Witness ==
    /\ lastOp = "stopDragMove"
    /\ moved
    /\ rectWidth = WidestRect
    /\ draggingStop # Null
    /\ HasId(colorStops, draggingStop)
    /\ PositionOf(colorStops, draggingStop) > Percent(0)
    /\ PositionOf(colorStops, draggingStop) < Percent(100)


\* C14: the document holds one mousemove/mouseup pair of the stop effect
\* exactly while draggingStop is not null and one pair of the angle effect
\* exactly while isDraggingAngle is true, never more than one pair of either,
\* and whenever the mouse button is up after a drag no drag is active and no
\* pair is registered.
C14_ListenersWhileDragging ==
    /\ stopListeners = (IF draggingStop # Null THEN 1 ELSE 0)
    /\ angleListeners = (IF isDraggingAngle THEN 1 ELSE 0)
    /\ mouseButton = "up" =>
          /\ draggingStop = Null
          /\ ~isDraggingAngle
          /\ stopListeners = 0
          /\ angleListeners = 0

\* a drag that moved its stop to another position has ended
C14_Witness ==
    /\ lastOp = "mouseUp"
    /\ pressTarget = "handle"
    /\ moved
    /\ HasId(colorStops, pressId)
    /\ PositionOf(colorStops, pressId) # dragStartPos
    /\ stopListeners = 0
    /\ angleListeners = 0


\* C15: a mousemove that arrives while the mouse button is up, or while
\* draggingStop is null and isDraggingAngle is false, leaves the angle and
\* the stop array as they were.
C15_IdleMoveChangesNothing ==
    [][ (/\ lastOp' \in { "pointerMove", "stopDragMove", "angleDragMove" }
         /\ \/ mouseButton = "up"
            \/ (draggingStop = Null /\ ~isDraggingAngle))
            => (angle' = angle /\ colorStops' = colorStops) ]_vars

\* a mousemove has arrived with no drag active, after drags had changed both
\* the angle and the stops
C15_Witness ==
    /\ lastOp = "pointerMove"
    /\ draggingStop = Null
    /\ ~isDraggingAngle
    /\ angle # 90
    /\ colorStops # InitialStops


\* C16: with pointer events delivered in order (down, moves, up) no state
\* has a stop drag and an angle drag active together.
C16_OneDragAtATime == ~(draggingStop # Null /\ isDraggingAngle)

\* a stop drag is under way after an angle drag has changed the angle
C16_Witness ==
    /\ draggingStop # Null
    /\ ~isDraggingAngle
    /\ mouseButton = "down"
    /\ angle # 90


\* the colour of the stop with the given id
ColorOf(stops, stopId) ==
    LET i == CHOOSE k \in DOMAIN stops : stops[k].id = stopId IN stops[i].color

\* C17: a mousemove during the drag of a stop leaves the angle, the number
\* of stops, the ids, every stop's colour, every other stop's position and
\* the dragged id as they were.
C17_DragMoveFrame ==
    [][ (lastOp' = "stopDragMove" /\ draggingStop # Null)
            => /\ angle' = angle
               /\ Len(colorStops') = Len(colorStops)
               /\ Ids(colorStops') = Ids(colorStops)
               /\ \A id \in Ids(colorStops) :
                     /\ ColorOf(colorStops', id) = ColorOf(colorStops, id)
                     /\ id # draggingStop =>
                           PositionOf(colorStops', id) = PositionOf(colorStops, id)
               /\ draggingStop' = draggingStop ]_vars

\* a mousemove has moved the dragged stop past another stop, in an array of
\* three stops
C17_Witness ==
    /\ lastOp = "stopDragMove"
    /\ draggingStop # Null
    /\ HasId(colorStops, draggingStop)
    /\ Len(colorStops) = MaxStops
    /\ PositionOf(colorStops, draggingStop) # dragStartPos
    /\ colorStops # preRender


\* C18: after a mousedown on the dial the angle drag is active and the angle
\* is the one handleAngleChange computes from that event's position; after a
\* mousedown on the dial followed by mouseup with no move between them the
\* angle is still that one and no drag is active.
C18_DialDownSetsAngle ==
    /\ lastOp = "dialMouseDown" =>
          /\ isDraggingAngle
          /\ angle = handleAngleChange(pointerD[1], pointerD[2])
    /\ (lastOp = "mouseUp" /\ pressTarget = "dial" /\ ~moved) =>
          /\ angle = handleAngleChange(pointerD[1], pointerD[2])
          /\ ~isDraggingAngle
          /\ draggingStop = Null

\* the dial was pressed and released with no move between, at a position
\* whose angle is not the initial one
C18_Witness ==
    /\ lastOp = "mouseUp"
    /\ pressTarget = "dial"
    /\ ~moved
    /\ pointerD # NoDial
    /\ angle # 90
    /\ ~isDraggingAngle


\* C19: a value v entered in the position field of a stop makes that stop's
\* stored position v clamped to [0,100] and leaves the angle and every other
\* stop as they were.
C19_FieldSetsPosition ==
    [][ lastOp' = "positionInput"
            => LET id == fieldInput'[1]
                   v  == fieldInput'[2]
               IN  /\ PositionOf(colorStops', id)
                         = MathMax(Percent(0), MathMin(Percent(100), Percent(v)))
                   /\ angle' = angle
                   /\ \A other \in Ids(colorStops) \ { id } :
                         /\ PositionOf(colorStops', other) = PositionOf(colorStops, other)
                         /\ ColorOf(colorStops', other) = ColorOf(colorStops, other) ]_vars

====
